---- MODULE Spec2Model ----
(***************************************************************************)
(* nllm: fan-out of one prompt to N `llm` processes.                       *)
(*                                                                         *)
(* NllmExecutor.execute_all (core.py) starts one task per configured       *)
(* model under an asyncio.Semaphore; each task runs ModelExecutor.execute  *)
(* (core.py), which calls _run_model directly or through                   *)
(* retry_with_backoff (utils.py).  Every action below is one step of the   *)
(* asyncio event loop: the code that runs between two awaits of a task,    *)
(* or one move of an external process.                                     *)
(***************************************************************************)
EXTENDS Integers, Sequences, FiniteSets, TLC

(* ------------------------------ bounds -------------------------------- *)
\* longest model list explored with every concurrency limit and timeout
MaxModels == 2
\* longest model list explored with retries configured
DetailModels == 1
\* largest config.retries explored
MaxRetries == 2
\* largest config.parallel explored
MaxParallel == 2
\* longest argument list given to construct_llm_command and
\* redact_secrets_from_args
MaxArgs == 3
\* longest stderr text (in words) given to classify_error
MaxWords == 3
\* largest value of the loop variable of retry_with_backoff for which the
\* delay is computed
MaxBackoffs == 7
\* most lines a process writes to one of its streams
MaxLines == 2
\* retries of the attempt seen line by line
MaxAttemptRetries == 1
\* segments of a text given to the JSON extractor
MaxSegs == 2

(* ------------------------- program constants -------------------------- *)
\* asyncio.Semaphore(4)
SemaphoreSize == 4
\* retry_with_backoff(..., base_delay=1.0)
base_delay == 1
\* retry_with_backoff(..., max_delay: float = 60.0)
max_delay == 60
\* constants.DEFAULT_RETRIES
DEFAULT_RETRIES == 0
\* NllmConfig.parallel: int = 4
DEFAULT_PARALLEL == 4
\* exit_code=-1 of _create_timeout_result and _create_error_result
NoExitCode == 0 - 1

Names == {"a", "b"}
NoResult == [status |-> "none"]
NoProc == [alive |-> FALSE, pipes |-> "none", term |-> FALSE, kill |-> FALSE]
\* no Live display has been opened
NoLive == [on |-> FALSE, table |-> <<>>]
\* an output directory in which _save_artifacts has written nothing
NoArtifacts == [manifest |-> FALSE, jsonl |-> FALSE, files |-> <<>>]

VARIABLES
    models,        \* context.config.models: the caller's list of model names
    parallel,      \* context.config.parallel
    retries,       \* context.config.retries
    timeoutSet,    \* context.config.timeout is not None
    quiet,         \* context.quiet
    dry_run,       \* context.dry_run
    llmChecked,    \* app.run has run `llm --version` (check_llm_available)
    mainPc,        \* position of execute_all
    semaphore,     \* free tokens of the semaphore of execute_all
    pc,            \* position of each model's task
    attempt,       \* loop variable of retry_with_backoff, per task
    proc,          \* the external process of the task's current attempt
    lastEnd,       \* per task: how its latest finished attempt ended
    onlyTransient, \* per task: every failed attempt so far was transient
    slept,         \* per task: total backoff delay slept (seconds)
    spawnCalls,    \* per task: number of create_subprocess_exec calls
    taskResult,    \* per task: the ModelResult its coroutine returned
    results,       \* self.results
    model_status,  \* self.model_status: name -> status shown in the table
    live,          \* the Live display of execute_all and the table it shows
    update_lock,   \* the asyncio.Lock of the progress branch
    artifacts,     \* the files _save_artifacts has written
    input,         \* a call of a function of utils.py or of a duration formula
    output,        \* what that call returned
    stream,        \* context.config.stream
    raw_output,    \* context.raw_output
    runPc,         \* position of one attempt of _run_model, seen line by line
    child,         \* the process of that attempt
    emitted,       \* per stream: the lines the process has written
    pipe,          \* per stream: the lines written and not yet read
    eof,           \* per stream: its reader has seen the end of the stream
    lines,         \* stdout_lines and stderr_lines of _stream_output
    files,         \* the raw stdout/stderr files of the attempt
    console,       \* the lines printed to the console
    captured,      \* stdout_data and stderr_data as _stream_output returns them
    earlier        \* the attempts of the run that ended: their number, how
                   \* many of their processes were left alive, and what
                   \* they wrote to the raw files

vars == <<models, parallel, retries, timeoutSet, quiet, dry_run, llmChecked,
          mainPc,
          semaphore, pc, attempt, proc, lastEnd, onlyTransient, slept,
          spawnCalls, taskResult, results, model_status, live, update_lock,
          artifacts, input, output, stream, raw_output, runPc, child, emitted,
          pipe, eof, lines, files, console, captured, earlier>>

\* the variables of execute_all and its tasks
mainVars == <<models, parallel, retries, timeoutSet, quiet, dry_run,
              llmChecked, mainPc, semaphore, pc, attempt, proc, lastEnd,
              onlyTransient, slept, spawnCalls, taskResult, results,
              model_status, live, update_lock, artifacts>>

\* the variables of a single call of a function
callVars == <<input, output>>

\* the variables of an attempt of _run_model seen line by line
attemptVars == <<stream, raw_output, runPc, child, emitted, pipe, eof, lines,
                 files, console, captured, earlier>>

\* what execute_all and its tasks, seen attempt by attempt, leave alone
aside == <<callVars, attemptVars>>

\* what is recorded about the attempts made so far
history == <<lastEnd, onlyTransient>>

\* the context app.run built before it constructed the executor
config == <<models, parallel, retries, timeoutSet, quiet, dry_run, llmChecked>>

\* the live display and the lock that guards its updates
display == <<live, update_lock>>

Tasks == 1..Len(models)

Min(a, b) == IF a < b THEN a ELSE b

RECURSIVE Pow2(_)
Pow2(k) == IF k = 0 THEN 1 ELSE 2 * Pow2(k - 1)

\* (variant of Delay: 2 * attempt instead of 2 ** attempt)
DelayLinear(k) == Min(base_delay * (2 * k), max_delay)

\* (variant of Delay: the delay is not capped)
DelayUncapped(k) == base_delay * Pow2(k)

\* utils.retry_with_backoff: delay = min(base_delay * (2**attempt), max_delay)
Delay(k) == Min(base_delay * Pow2(k), max_delay)

\* more models than the semaphore has tokens, with repeated names
Crowd == [i \in 1..(SemaphoreSize + 1) |-> IF i % 2 = 1 THEN "a" ELSE "b"]

\* the model lists explored: every list over Names up to MaxModels (up to
\* renaming: the first name is "a"), and Crowd
ModelLists ==
    {l \in UNION {[1..n -> Names] : n \in 0..MaxModels} :
        Len(l) > 0 => l[1] = "a"}
    \cup {Crowd}

\* no function call is looked at
NoCall ==
    /\ input = [fn |-> "none"]
    /\ output = [done |-> FALSE]

\* no attempt is looked at line by line
NoAttempt ==
    /\ stream = TRUE
    /\ raw_output = FALSE
    /\ runPc = "none"
    /\ child = [alive |-> FALSE, term |-> FALSE]
    /\ emitted = [s \in {"stdout", "stderr"} |-> <<>>]
    /\ pipe = [s \in {"stdout", "stderr"} |-> <<>>]
    /\ eof = [s \in {"stdout", "stderr"} |-> FALSE]
    /\ lines = [s \in {"stdout", "stderr"} |-> <<>>]
    /\ files = [exist |-> FALSE, stdout |-> <<>>, stderr |-> <<>>]
    /\ console = <<>>
    /\ captured = [stdout |-> <<>>, stderr |-> <<>>]
    /\ earlier = [attempts |-> 0, alive |-> 0, stdout |-> <<>>, stderr |-> <<>>]

\* two models of which one can sleep in a backoff while the other runs
Pair == <<"a", "b">>

\* The configurations explored.  Retries are explored on lists of up to
\* DetailModels models, and concurrency limits other than the default
\* without retries; Crowd runs with the default configuration, and Pair
\* also with one retry, quietly and without a timeout.
Init ==
    /\ models \in ModelLists
    /\ parallel \in (1..MaxParallel) \cup {DEFAULT_PARALLEL}
    /\ retries \in 0..MaxRetries
    /\ timeoutSet \in BOOLEAN
    /\ quiet \in BOOLEAN
    /\ dry_run \in BOOLEAN
    /\ retries # DEFAULT_RETRIES =>
          \/ (Len(models) <= DetailModels /\ parallel = DEFAULT_PARALLEL)
          \/ (models = Pair /\ retries = DEFAULT_RETRIES + 1
              /\ parallel = DEFAULT_PARALLEL /\ ~timeoutSet /\ quiet
              /\ ~dry_run)
    /\ Len(models) > MaxModels =>
          (~timeoutSet /\ parallel = DEFAULT_PARALLEL)
    /\ llmChecked = ~dry_run
    /\ mainPc = "init"
    /\ semaphore = SemaphoreSize
    /\ pc = [i \in Tasks |-> "created"]
    /\ attempt = [i \in Tasks |-> 0]
    /\ proc = [i \in Tasks |-> NoProc]
    /\ lastEnd = [i \in Tasks |-> "none"]
    /\ onlyTransient = [i \in Tasks |-> TRUE]
    /\ slept = [i \in Tasks |-> 0]
    /\ spawnCalls = [i \in Tasks |-> 0]
    /\ taskResult = [i \in Tasks |-> NoResult]
    /\ results = <<>>
    /\ model_status = [n \in {} |-> "running"]
    /\ live = NoLive
    /\ update_lock = "free"
    /\ artifacts = NoArtifacts
    /\ NoCall
    /\ NoAttempt

Range(f) == {f[x] : x \in DOMAIN f}

(* ------------------------------ results ------------------------------- *)
\* ModelResult as built by _run_model, _create_timeout_result,
\* _create_error_result and _create_dry_run_result; `task` records which
\* ModelConfig of the list the executor that built it was created for.
\* Of the fields of ModelResult the model keeps model, status and
\* exit_code; the constructor is taken to accept the json keyword that
\* _run_model passes and tests/test_models.py declares.
OkResult(i) ==
    [model |-> models[i], status |-> "ok", exit_code |-> 0, task |-> i]
ExitErrorResult(i, code) ==
    [model |-> models[i], status |-> "error", exit_code |-> code, task |-> i]
\* (variant of TimeoutResult: the exit code is left at 0)
TimeoutResultExitZero(i) ==
    [model |-> models[i], status |-> "timeout", exit_code |-> 0, task |-> i]

TimeoutResult(i) ==
    [model |-> models[i], status |-> "timeout", exit_code |-> NoExitCode,
     task |-> i]
ErrorResult(i) ==
    [model |-> models[i], status |-> "error", exit_code |-> NoExitCode,
     task |-> i]

\* context.llm_args: the arguments passed through to llm, here a prompt
\* after a flag that carries a secret
llm_args == <<"--api-key", "s3cret", "hello">>

\* (variant of construct_llm_command: "-m model" is always added)
construct_llm_commandAlwaysInject(model, args, model_options) ==
    <<"llm", "-m", model>> \o model_options \o args

\* utils.construct_llm_command: "-m model" is added unless llm_args holds
\* "-m" or "--model" followed by a value; the options come before llm_args
construct_llm_command(model, args, model_options) ==
    LET has_model ==
            \E k \in 1..Len(args) :
                args[k] \in {"-m", "--model"} /\ k + 1 <= Len(args)
    IN <<"llm">> \o (IF has_model THEN <<>> ELSE <<"-m", model>>)
               \o model_options \o args

\* the flags after which redact_secrets_from_args redacts the next argument
SecretFlags == {"--api-key", "--token", "--password", "--secret"}

\* an argument of 32 letters and digits, as an API key looks
LongKey == "0123456789abcdef0123456789abcdef"

\* The arguments explored, and what the string operations of
\* redact_secrets_from_args give on them: str.lower(), `"=" in arg`, the
\* two parts of arg.split("=", 1), whether the lowered key holds one of
\* "key", "token", "password", "secret", and whether the argument matches
\* sk-[a-zA-Z0-9]{32,} or [a-zA-Z0-9]{32,} at its start.
ArgWords == {"--api-key", "--TOKEN", "-m", "s3cret", "hello",
             "api_key=s3cret", "n=hello", LongKey}
lower(arg) == IF arg = "--TOKEN" THEN "--token" ELSE arg
HasEquals(arg) == arg \in {"api_key=s3cret", "n=hello"}
KeyOf(arg) == IF arg = "api_key=s3cret" THEN "api_key" ELSE "n"
KeyHasSecretWord(key) == key = "api_key"
MatchesKeyPattern(arg) == arg = LongKey

\* the marker redact_secrets_from_args puts in the place of a secret
REDACTED == "***REDACTED***"

\* the loop of utils.redact_secrets_from_args from the k-th argument on
RECURSIVE RedactFrom(_, _, _)
RedactFrom(args, k, redact_next) ==
    IF k > Len(args) THEN <<>>
    ELSE IF redact_next
    THEN <<REDACTED>> \o RedactFrom(args, k + 1, FALSE)
    ELSE IF lower(args[k]) \in SecretFlags
    THEN <<args[k]>> \o RedactFrom(args, k + 1, TRUE)
    ELSE IF HasEquals(args[k]) /\ KeyHasSecretWord(KeyOf(args[k]))
    THEN <<KeyOf(args[k]) \o "=" \o REDACTED>>
             \o RedactFrom(args, k + 1, FALSE)
    ELSE IF MatchesKeyPattern(args[k])
    THEN <<REDACTED>> \o RedactFrom(args, k + 1, FALSE)
    ELSE <<args[k]>> \o RedactFrom(args, k + 1, FALSE)

redact_secrets_from_args(args) == RedactFrom(args, 1, FALSE)

\* constants.DRY_RUN_PREFIX
DRY_RUN_PREFIX == "DRY RUN:"

\* _create_dry_run_result; text is the words of f"DRY RUN: {command_str}",
\* where command_str joins the redacted command with spaces
DryRunResult(i) ==
    [model |-> models[i], status |-> "ok", exit_code |-> 0, task |-> i,
     duration_ms |-> 0,
     text |-> <<"DRY RUN:">> \o redact_secrets_from_args(
                  construct_llm_command(models[i], llm_args, <<>>))]

\* the entry _run_single_model_with_progress writes for a result
StatusOf(res) ==
    IF res.status = "ok" THEN "completed"
    ELSE IF res.status = "timeout" THEN "timeout"
    ELSE "error"

\* the branch of execute_all that shows the live progress table
WithProgress == ~quiet /\ ~dry_run

(* ---------------------------- execute_all ----------------------------- *)
\* _create_progress_table: one row per entry of model_status, showing the
\* entry's status
create_progress_table(status) == [n \in DOMAIN status |-> status[n]]

\* (variant of Start: the empty-list check is left out)
StartNoCheck ==
    /\ mainPc = "init"
    /\ mainPc' = "gather"
    /\ model_status' = [n \in Range(models) |-> "running"]
    /\ live' = IF WithProgress
               THEN [on |-> TRUE,
                     table |-> create_progress_table(model_status')]
               ELSE live
    /\ pc' = [i \in Tasks |-> "waiting"]
    /\ UNCHANGED <<config, aside, artifacts, update_lock, semaphore, attempt,
                   proc, history, slept, spawnCalls, taskResult, results>>

\* execute_all up to the first await: the empty-list check, the status
\* initialisation, the Live display of the progress branch and the creation
\* of one task per model
Start ==
    /\ mainPc = "init"
    /\ IF Len(models) = 0
       THEN /\ mainPc' = "raised"
            /\ UNCHANGED <<pc, model_status, live>>
       ELSE /\ mainPc' = "gather"
            /\ model_status' = [n \in Range(models) |-> "running"]
            /\ live' = IF WithProgress
                       THEN [on |-> TRUE,
                             table |-> create_progress_table(model_status')]
                       ELSE live
            /\ pc' = [i \in Tasks |-> "waiting"]
    /\ UNCHANGED <<config, aside, artifacts, update_lock, semaphore, attempt,
                   proc, history, slept, spawnCalls, taskResult, results>>

\* (variant of Complete: a run that did not end ok cancels the runs that
\* are not done yet, which end with the error result)
CompleteCancelSiblings(i, res) ==
    LET cancelled ==
            {j \in Tasks \ {i} : res.status # "ok" /\ pc[j] # "done"}
    IN /\ taskResult' = [j \in Tasks |->
                            IF j = i THEN res
                            ELSE IF j \in cancelled THEN ErrorResult(j)
                            ELSE taskResult[j]]
       /\ pc' = [j \in Tasks |->
                    IF j = i \/ j \in cancelled THEN "done" ELSE pc[j]]
       /\ semaphore' = semaphore + 1
       /\ IF WithProgress
          THEN /\ update_lock = "free"
               /\ model_status' =
                     [model_status EXCEPT ![models[i]] = StatusOf(res)]
               /\ live' = [live EXCEPT
                             !.table = create_progress_table(model_status')]
               /\ update_lock' = "free"
          ELSE UNCHANGED <<model_status, live, update_lock>>

\* (variant of Complete: a run that timed out keeps its token)
CompleteKeepsTokenOnTimeout(i, res) ==
    /\ taskResult' = [taskResult EXCEPT ![i] = res]
    /\ pc' = [pc EXCEPT ![i] = "done"]
    /\ semaphore' = IF res.status = "timeout" THEN semaphore
                    ELSE semaphore + 1
    /\ IF WithProgress
       THEN /\ update_lock = "free"
            /\ model_status' =
                  [model_status EXCEPT ![models[i]] = StatusOf(res)]
            /\ live' = [live EXCEPT
                          !.table = create_progress_table(model_status')]
            /\ update_lock' = "free"
       ELSE UNCHANGED <<model_status, live, update_lock>>

\* (variant of Complete: a run that did not end ok leaves the block without
\* giving its semaphore token back)
CompleteKeepsTokenUnlessOk(i, res) ==
    /\ taskResult' = [taskResult EXCEPT ![i] = res]
    /\ pc' = [pc EXCEPT ![i] = "done"]
    /\ semaphore' = IF res.status = "ok" THEN semaphore + 1 ELSE semaphore
    /\ IF WithProgress
       THEN /\ update_lock = "free"
            /\ model_status' =
                  [model_status EXCEPT ![models[i]] = StatusOf(res)]
            /\ live' = [live EXCEPT
                          !.table = create_progress_table(model_status')]
            /\ update_lock' = "free"
       ELSE UNCHANGED <<model_status, live, update_lock>>

\* (variant of Complete: the display is refreshed before the entry is
\* written)
CompleteRefreshFirst(i, res) ==
    /\ taskResult' = [taskResult EXCEPT ![i] = res]
    /\ pc' = [pc EXCEPT ![i] = "done"]
    /\ semaphore' = semaphore + 1
    /\ IF WithProgress
       THEN /\ update_lock = "free"
            /\ live' = [live EXCEPT
                          !.table = create_progress_table(model_status)]
            /\ model_status' =
                  [model_status EXCEPT ![models[i]] = StatusOf(res)]
            /\ update_lock' = "free"
       ELSE UNCHANGED <<model_status, live, update_lock>>

\* the end of a task: the coroutine of execute() has returned res; the
\* progress branch takes update_lock, writes the status entry, refreshes the
\* display and leaves the lock, all without awaiting while the lock is
\* free; leaving `async with semaphore` releases the token
Complete(i, res) ==
    /\ taskResult' = [taskResult EXCEPT ![i] = res]
    /\ pc' = [pc EXCEPT ![i] = "done"]
    /\ semaphore' = semaphore + 1
    /\ IF WithProgress
       THEN /\ update_lock = "free"
            /\ model_status' =
                  [model_status EXCEPT ![models[i]] = StatusOf(res)]
            /\ live' = [live EXCEPT
                          !.table = create_progress_table(model_status')]
            /\ update_lock' = "free"
       ELSE UNCHANGED <<model_status, live, update_lock>>

\* (variant of Acquire: execute() does not look at context.dry_run)
AcquireIgnoringDryRun(i) ==
    /\ mainPc = "gather"
    /\ pc[i] = "waiting"
    /\ semaphore > 0
    /\ semaphore' = semaphore - 1
    /\ pc' = [pc EXCEPT ![i] = "spawn"]
    /\ spawnCalls' = [spawnCalls EXCEPT ![i] = @ + 1]
    /\ UNCHANGED <<config, aside, artifacts, display, mainPc, attempt, proc,
                   history, slept, taskResult, results, model_status>>

\* (variant of Acquire: no run starts while another sleeps in a backoff)
AcquireNotDuringSleep(i) ==
    /\ mainPc = "gather"
    /\ pc[i] = "waiting"
    /\ ~dry_run
    /\ semaphore > 0
    /\ \A j \in Tasks : pc[j] # "backoff"
    /\ semaphore' = semaphore - 1
    /\ pc' = [pc EXCEPT ![i] = "spawn"]
    /\ spawnCalls' = [spawnCalls EXCEPT ![i] = @ + 1]
    /\ UNCHANGED <<config, aside, artifacts, display, mainPc, attempt, proc,
                   history, slept, taskResult, results, model_status>>

\* `async with semaphore` is entered and execute() runs up to the await of
\* create_subprocess_exec
Acquire(i) ==
    /\ mainPc = "gather"
    /\ pc[i] = "waiting"
    /\ ~dry_run
    /\ semaphore > 0
    /\ semaphore' = semaphore - 1
    /\ pc' = [pc EXCEPT ![i] = "spawn"]
    /\ spawnCalls' = [spawnCalls EXCEPT ![i] = @ + 1]
    /\ UNCHANGED <<config, aside, artifacts, display, mainPc, attempt, proc,
                   history, slept, taskResult, results, model_status>>

\* dry run: execute() returns _create_dry_run_result() without awaiting, so
\* the token is taken and released in the same step
DryRun(i) ==
    /\ mainPc = "gather"
    /\ pc[i] = "waiting"
    /\ dry_run
    /\ semaphore > 0
    /\ taskResult' = [taskResult EXCEPT ![i] = DryRunResult(i)]
    /\ pc' = [pc EXCEPT ![i] = "done"]
    /\ UNCHANGED <<config, aside, artifacts, display, mainPc, semaphore,
                   attempt, proc, history, slept, spawnCalls, results,
                   model_status>>

\* (variant of GatherResults: the results are looked up by model name, the
\* way model_status is keyed, so the last task of a name wins)
GatherResultsByName(res) ==
    [i \in Tasks |->
        res[CHOOSE j \in Tasks :
                /\ models[j] = models[i]
                /\ \A k \in Tasks : models[k] = models[i] => k <= j]]

\* asyncio.gather returns the tasks' results in the order of the task list
GatherResults(res) == [i \in Tasks |-> res[i]]

\* (variant of SavesArtifacts: a dry run saves too)
SavesArtifactsAlways == TRUE

\* execute_all saves the artifacts unless this is a dry run
SavesArtifacts == ~dry_run

\* _save_artifacts writes the manifest, results.jsonl, and one file per
\* result
NumWrites == Len(models) + 2

\* the output directory after the first k writes of _save_artifacts: the
\* manifest, then results.jsonl, then for each result in order the file
\* named after result.model, a later result replacing the file of an
\* earlier one of the same name
Written(rs, k) ==
    [manifest |-> k >= 1,
     jsonl |-> k >= 2,
     files |-> [n \in {rs[j].model : j \in 1..(k - 2)} |->
                  rs[CHOOSE j \in 1..(k - 2) :
                        /\ rs[j].model = n
                        /\ \A h \in 1..(k - 2) : rs[h].model = n => h <= j]]]

\* (variant of AfterSave: an exception of a write is swallowed)
AfterSaveSwallowed(k) == "returned"

\* after k successful writes: the (k+1)-th write raised, and the exception
\* leaves _save_artifacts and execute_all, unless all NumWrites were made
AfterSave(k) == IF k = NumWrites THEN "returned" ELSE "sink_failed"

\* gather completes once every task is done; the Live display is closed,
\* self.results is assigned, and execute_all runs _save_artifacts (which
\* does not await) and returns self.results, or raises what a write raised
Return ==
    /\ mainPc = "gather"
    /\ \A i \in Tasks : pc[i] = "done"
    /\ results' = GatherResults(taskResult)
    /\ live' = [live EXCEPT !.on = FALSE]
    /\ IF SavesArtifacts
       THEN \E k \in 0..NumWrites :
               /\ artifacts' = Written(results', k)
               /\ mainPc' = AfterSave(k)
       ELSE /\ artifacts' = artifacts
            /\ mainPc' = "returned"
    /\ UNCHANGED <<config, aside, update_lock, semaphore, pc, attempt, proc,
                   history, slept, spawnCalls, taskResult, model_status>>

\* the loop of get_exit_code from the k-th result on
RECURSIVE ExitCodeFrom(_, _)
ExitCodeFrom(rs, k) ==
    IF k > Len(rs) THEN 0
    ELSE IF rs[k].status \in {"error", "timeout"} THEN 1
    ELSE ExitCodeFrom(rs, k + 1)

\* (variant of get_exit_code: only the error status counts)
get_exit_codeErrorsOnly ==
    IF dry_run THEN 0
    ELSE IF \E k \in DOMAIN results : results[k].status = "error" THEN 1
    ELSE 0

\* NllmExecutor.get_exit_code, as app.run calls it after execute_all
get_exit_code == IF dry_run THEN 0 ELSE ExitCodeFrom(results, 1)

(* ------------------- execute / retry_with_backoff --------------------- *)
\* an attempt of task i raised an exception of the given kind out of
\* _run_model.  With retries > 0 the call runs inside retry_with_backoff,
\* whose `except Exception` catches it: unless this was the last attempt it
\* sleeps and loops.  Otherwise the exception reaches the handlers of
\* execute(): TimeoutError gives the timeout result, anything else the error
\* result.
Retried(i, kind) == retries > 0 /\ attempt[i] # retries

\* (variant of FinalResult: every exception is reported as a timeout)
FinalResultAlwaysTimeout(i, kind) == TimeoutResult(i)

\* the handlers of execute(): `except TimeoutError` gives the timeout
\* result, `except Exception` the error result
FinalResult(i, kind) ==
    IF kind = "timeout" THEN TimeoutResult(i) ELSE ErrorResult(i)

Raise(i, kind) ==
    /\ lastEnd' = [lastEnd EXCEPT ![i] = kind]
    /\ onlyTransient' = [onlyTransient EXCEPT ![i] = @ /\ kind = "transient"]
    /\ IF Retried(i, kind)
       THEN /\ pc' = [pc EXCEPT ![i] = "backoff"]
            /\ UNCHANGED <<taskResult, semaphore, model_status, display>>
       ELSE Complete(i, FinalResult(i, kind))

\* asyncio.sleep(delay) of retry_with_backoff is over: next loop iteration
BackoffDone(i) ==
    /\ pc[i] = "backoff"
    /\ slept' = [slept EXCEPT ![i] = @ + Delay(attempt[i])]
    /\ attempt' = [attempt EXCEPT ![i] = @ + 1]
    /\ pc' = [pc EXCEPT ![i] = "spawn"]
    /\ spawnCalls' = [spawnCalls EXCEPT ![i] = @ + 1]
    /\ UNCHANGED <<config, aside, artifacts, display, mainPc, semaphore,
                   proc, history, taskResult, results, model_status>>

(* ----------------------------- _run_model ------------------------------ *)
\* (variant of classify_error: the transient patterns are looked up first)
classify_errorTransientFirst(hasPermanent, hasTransient) ==
    IF hasTransient THEN TRUE
    ELSE FALSE

\* utils.classify_error on a stderr that contains a permanent pattern
\* (hasPermanent) and/or a transient pattern (hasTransient): the permanent
\* patterns are looked up first, and the default is "not retryable"
classify_error(hasPermanent, hasTransient) ==
    IF hasPermanent THEN FALSE
    ELSE IF hasTransient THEN TRUE
    ELSE FALSE

\* exit codes a process can report: success and one failure code
ExitCodes == {0, 1}

\* The words explored in a stderr text, which is taken word by word: a
\* text is a sequence of words, and a pattern occurs in it where its words
\* occur one after the other.
StderrWords == {"Connection", "TIMEOUT", "Invalid", "API", "key", "gremlin"}
lower_word(w) ==
    CASE w = "Connection" -> "connection"
      [] w = "TIMEOUT" -> "timeout"
      [] w = "Invalid" -> "invalid"
      [] w = "API" -> "api"
      [] OTHER -> w

\* of constants.TRANSIENT_ERROR_PATTERNS: "connection", "timeout"
TRANSIENT_ERROR_PATTERNS == {<<"connection">>, <<"timeout">>}
\* of constants.PERMANENT_ERROR_PATTERNS: "api key"
PERMANENT_ERROR_PATTERNS == {<<"api", "key">>}

\* `pattern in text` of Python
Contains(text, pattern) ==
    \E k \in 0..(Len(text) - Len(pattern)) :
        \A j \in 1..Len(pattern) : text[k + j] = pattern[j]

\* utils.classify_error on the text of a stderr
classify_stderr(stderr_content) ==
    LET stderr_lower ==
            [k \in 1..Len(stderr_content) |-> lower_word(stderr_content[k])]
    IN classify_error(
           \E pattern \in PERMANENT_ERROR_PATTERNS :
               Contains(stderr_lower, pattern),
           \E pattern \in TRANSIENT_ERROR_PATTERNS :
               Contains(stderr_lower, pattern))

\* create_subprocess_exec returned a process with both pipes open
SpawnOk(i) ==
    /\ pc[i] = "spawn"
    /\ proc' = [proc EXCEPT ![i] = [alive |-> TRUE, pipes |-> "open",
                                    term |-> FALSE, kill |-> FALSE]]
    /\ pc' = [pc EXCEPT ![i] = "streaming"]
    /\ UNCHANGED <<config, aside, artifacts, display, mainPc, semaphore,
                   attempt, history, slept, spawnCalls, taskResult, results,
                   model_status>>

\* create_subprocess_exec raised FileNotFoundError, which _run_model turns
\* into ExecutionError("llm command not found")
SpawnFail(i) ==
    /\ pc[i] = "spawn"
    /\ Raise(i, "spawn")
    /\ UNCHANGED <<config, aside, artifacts, mainPc, attempt, proc, slept,
                   spawnCalls, results>>

\* the external process closes its stdout and stderr and keeps running
ProcClosePipes(i) ==
    /\ proc[i].alive
    /\ proc[i].pipes = "open"
    /\ proc' = [proc EXCEPT ![i].pipes = "closed"]
    /\ UNCHANGED <<config, aside, artifacts, display, mainPc, semaphore, pc,
                   attempt, history, slept, spawnCalls, taskResult, results,
                   model_status>>

\* the external process exits (on its own, or because of a signal), which
\* also closes its ends of the pipes
ProcExit(i) ==
    /\ proc[i].alive
    /\ proc' = [proc EXCEPT ![i].alive = FALSE, ![i].pipes = "closed"]
    /\ UNCHANGED <<config, aside, artifacts, display, mainPc, semaphore, pc,
                   attempt, history, slept, spawnCalls, taskResult, results,
                   model_status>>

\* both readers of _stream_output saw EOF: the (timeout-bounded) await of
\* _stream_output returns and _run_model awaits process.wait()
StreamDone(i) ==
    /\ pc[i] = "streaming"
    /\ proc[i].pipes = "closed"
    /\ pc' = [pc EXCEPT ![i] = "waitexit"]
    /\ UNCHANGED <<config, aside, artifacts, display, mainPc, semaphore,
                   attempt, proc, history, slept, spawnCalls, taskResult,
                   results, model_status>>

\* asyncio.wait_for(self._stream_output(...), timeout) expires: the handler
\* calls process.terminate() and awaits process.wait() for up to 5 seconds
TimeoutExpire(i) ==
    /\ pc[i] = "streaming"
    /\ timeoutSet
    /\ proc' = [proc EXCEPT ![i].term = TRUE]
    /\ pc' = [pc EXCEPT ![i] = "grace"]
    /\ UNCHANGED <<config, aside, artifacts, display, mainPc, semaphore,
                   attempt, history, slept, spawnCalls, taskResult, results,
                   model_status>>

\* (variant of GraceDone: the kill is sent although the process has exited)
GraceDoneKill(i) ==
    /\ pc[i] = "grace"
    /\ ~proc[i].alive
    /\ proc' = [proc EXCEPT ![i].kill = TRUE]
    /\ Raise(i, "timeout")
    /\ UNCHANGED <<config, aside, artifacts, mainPc, attempt, slept,
                   spawnCalls, results>>

\* process.wait() returned within the 5 seconds: raise TimeoutError()
GraceDone(i) ==
    /\ pc[i] = "grace"
    /\ ~proc[i].alive
    /\ Raise(i, "timeout")
    /\ UNCHANGED <<config, aside, artifacts, mainPc, attempt, proc, slept,
                   spawnCalls, results>>

\* the 5 seconds are over and the process has not exited: process.kill(),
\* then await process.wait()
GraceExpire(i) ==
    /\ pc[i] = "grace"
    /\ proc[i].alive
    /\ proc' = [proc EXCEPT ![i].kill = TRUE]
    /\ pc' = [pc EXCEPT ![i] = "killwait"]
    /\ UNCHANGED <<config, aside, artifacts, display, mainPc, semaphore,
                   attempt, history, slept, spawnCalls, taskResult, results,
                   model_status>>

\* process.wait() after the kill returned: raise TimeoutError()
KillWaitDone(i) ==
    /\ pc[i] = "killwait"
    /\ ~proc[i].alive
    /\ Raise(i, "timeout")
    /\ UNCHANGED <<config, aside, artifacts, mainPc, attempt, proc, slept,
                   spawnCalls, results>>

\* _run_model after process.wait(): exit code 0 gives the ok result
ExitOk(i) ==
    /\ lastEnd' = [lastEnd EXCEPT ![i] = "ok"]
    /\ UNCHANGED onlyTransient
    /\ Complete(i, OkResult(i))

\* _run_model after process.wait(): a nonzero exit code whose stderr
\* classify_error calls retryable raises ExecutionError("Retryable error")
ExitRetryable(i) == Raise(i, "transient")

\* (variant of ExitPermanent: the failure is raised like a retryable one)
ExitPermanentRaised(i, exit_code) == Raise(i, "permanent")

\* _run_model after process.wait(): any other nonzero exit code gives the
\* error result, returned like a success
ExitPermanent(i, exit_code) ==
    /\ lastEnd' = [lastEnd EXCEPT ![i] = "permanent"]
    /\ UNCHANGED onlyTransient
    /\ Complete(i, ExitErrorResult(i, exit_code))

\* process.wait() after _stream_output returned exit_code; the rest of
\* _run_model builds the result or raises.  The exit code and the stderr
\* text are first looked at here.
WaitDone(i) ==
    /\ pc[i] = "waitexit"
    /\ ~proc[i].alive
    /\ \E exit_code \in ExitCodes, hasPermanent \in BOOLEAN,
          hasTransient \in BOOLEAN :
          IF exit_code = 0 THEN ExitOk(i)
          ELSE IF classify_error(hasPermanent, hasTransient)
          THEN ExitRetryable(i)
          ELSE ExitPermanent(i, exit_code)
    /\ UNCHANGED <<config, aside, artifacts, mainPc, attempt, proc, slept,
                   spawnCalls, results>>

Next ==
    \/ Start
    \/ Return
    \/ \E i \in Tasks : Acquire(i)
    \/ \E i \in Tasks : DryRun(i)
    \/ \E i \in Tasks : SpawnOk(i)
    \/ \E i \in Tasks : SpawnFail(i)
    \/ \E i \in Tasks : ProcClosePipes(i)
    \/ \E i \in Tasks : ProcExit(i)
    \/ \E i \in Tasks : StreamDone(i)
    \/ \E i \in Tasks : TimeoutExpire(i)
    \/ \E i \in Tasks : GraceDone(i)
    \/ \E i \in Tasks : GraceExpire(i)
    \/ \E i \in Tasks : KillWaitDone(i)
    \/ \E i \in Tasks : WaitDone(i)
    \/ \E i \in Tasks : BackoffDone(i)

Spec == Init /\ [][Next]_vars

\* the steps the event loop takes for the task of model i when it can:
\* every step of the task but the expiry of its timeout
TaskStep(i) ==
    /\ i \in Tasks
    /\ \/ Acquire(i)
       \/ DryRun(i)
       \/ SpawnOk(i)
       \/ SpawnFail(i)
       \/ StreamDone(i)
       \/ GraceDone(i)
       \/ GraceExpire(i)
       \/ KillWaitDone(i)
       \/ WaitDone(i)
       \/ BackoffDone(i)

\* the process of model i exits, on its own or because of a signal
ProcessEnds(i) == i \in Tasks /\ ProcExit(i)

\* the most tasks a list explored has
MostTasks == SemaphoreSize + 1

\* execute_all under a fair event loop (a coroutine that can go on does),
\* with external processes each of which exits at some time, on its own
\* or killed
Fairness ==
    /\ WF_vars(Start)
    /\ WF_vars(Return)
    /\ \A i \in 1..MostTasks : WF_vars(TaskStep(i))
    /\ \A i \in 1..MostTasks : WF_vars(ProcessEnds(i))

\* the lists on which the fair runs are explored: those of up to
\* DetailModels models, with every configuration, and Crowd with the
\* progress display, whose runs wait for each other's tokens
FairInit ==
    /\ Init
    /\ \/ Len(models) <= DetailModels
       \/ (models = Crowd /\ ~quiet)

SpecFair == FairInit /\ [][Next]_vars /\ Fairness

(* --------------------- single calls of functions --------------------- *)
\* the executor as constructed for a list of models and a number of
\* retries: execute_all has not been called
ConstructedWith(ms, q, d, r) ==
    /\ models = ms
    /\ parallel = DEFAULT_PARALLEL
    /\ retries = r
    /\ timeoutSet = FALSE
    /\ quiet = q
    /\ dry_run = d
    /\ llmChecked = ~d
    /\ mainPc = "init"
    /\ semaphore = SemaphoreSize
    /\ pc = [i \in 1..Len(ms) |-> "created"]
    /\ attempt = [i \in 1..Len(ms) |-> 0]
    /\ proc = [i \in 1..Len(ms) |-> NoProc]
    /\ lastEnd = [i \in 1..Len(ms) |-> "none"]
    /\ onlyTransient = [i \in 1..Len(ms) |-> TRUE]
    /\ slept = [i \in 1..Len(ms) |-> 0]
    /\ spawnCalls = [i \in 1..Len(ms) |-> 0]
    /\ taskResult = [i \in 1..Len(ms) |-> NoResult]
    /\ results = <<>>
    /\ model_status = [n \in {} |-> "running"]
    /\ live = NoLive
    /\ update_lock = "free"
    /\ artifacts = NoArtifacts

\* the executor as constructed with the default configuration
Constructed(ms, q, d) == ConstructedWith(ms, q, d, DEFAULT_RETRIES)

SeqsUpTo(S, n) == UNION {[1..k -> S] : k \in 0..n}

\* ModelConfig.options of the model the command is built for
OptionLists == {<<>>, <<"-o", "1">>}

\* elapsed times in milliseconds between start_time and the end of a run
ElapsedMs == {0, 400, 1000, 1500, 2600}


(* the JSON extractor: extract(text) of section 4.3 *)
\* what a fenced block, an inline span or a stretch of plain text holds: an
\* object, an array, a scalar, a balanced brace that is not JSON, and prose
JsonBodies == {"{\"a\":1}", "[1]", "42", "{oops}", "hello"}

\* the language tags of fenced blocks ("" is no tag)
Tags == {"json", "JSON", "", "yaml"}

\* tag.lower()
lower_tag(tag) == IF tag = "JSON" THEN "json" ELSE tag

\* the parts a text is made of, in source order
Segments ==
    {[form |-> "fence", tag |-> t, body |-> b] : t \in Tags, b \in JsonBodies}
    \cup {[form |-> f, tag |-> "", body |-> b] :
             f \in {"inline", "bare"}, b \in JsonBodies}

\* the texts explored: no text at all, only whitespace, and texts made of
\* segments; outer says whether the segments stand alone ("none"), inside
\* the string of a JSON object that is the whole text ("object"), or
\* between a brace pair that does not make the whole text JSON ("broken")
Texts ==
    {[kind |-> k, outer |-> "none", segs |-> <<>>] : k \in {"absent", "blank"}}
    \cup {[kind |-> "text", outer |-> o, segs |-> q] :
             o \in {"none", "object", "broken"},
             q \in SeqsUpTo(Segments, MaxSegs)}

\* no structured payload
Nothing == [shape |-> "nothing", whole |-> FALSE, body |-> ""]

\* json.loads of a body: the shape of the value, or "invalid"
parse_json(body) ==
    [shape |-> CASE body = "{\"a\":1}" -> "object"
                 [] body = "[1]" -> "array"
                 [] body = "42" -> "scalar"
                 [] OTHER -> "invalid",
     whole |-> FALSE,
     body |-> body]

\* json.loads of a text that is one JSON object around the segments
parse_whole == [shape |-> "object", whole |-> TRUE, body |-> "{...}"]

\* (variant of IsPayload: any value that parses counts)
IsPayloadAnyJson(v) == v.shape \in {"object", "array", "scalar"}

\* only objects and arrays count as extraction targets
IsPayload(v) == v.shape \in {"object", "array"}

\* the brace or bracket a body starts with (it ends with the matching one)
Opens(body) ==
    CASE body \in {"{\"a\":1}", "{oops}"} -> "{"
      [] body = "[1]" -> "["
      [] OTHER -> ""

\* the first body of a list that parses to an object or array
FirstPayload(bodies) ==
    IF \E k \in 1..Len(bodies) : IsPayload(parse_json(bodies[k]))
    THEN parse_json(bodies[CHOOSE k \in 1..Len(bodies) :
            /\ IsPayload(parse_json(bodies[k]))
            /\ \A j \in 1..(k - 1) : ~IsPayload(parse_json(bodies[j]))])
    ELSE Nothing

BodiesOf(segs) == [k \in 1..Len(segs) |-> segs[k].body]

\* (variant of OrderedFences: the blocks are tried in source order)
OrderedFencesInSourceOrder(segs) ==
    SelectSeq(segs, LAMBDA g : g.form = "fence")

\* step 3: the fenced blocks in the order they are tried: tagged json,
\* then untagged, then the others, each group in source order
OrderedFences(segs) ==
    SelectSeq(segs, LAMBDA g : g.form = "fence" /\ lower_tag(g.tag) = "json")
    \o SelectSeq(segs, LAMBDA g : g.form = "fence" /\ g.tag = "")
    \o SelectSeq(segs, LAMBDA g : g.form = "fence"
                                  /\ lower_tag(g.tag) \notin {"json", ""})

\* step 2: the trimmed text starts with a brace or bracket, ends with its
\* match, and parses as a whole
WholeParse(text) ==
    IF text.outer = "object" THEN parse_whole
    ELSE IF /\ text.outer = "none"
            /\ Len(text.segs) = 1
            /\ text.segs[1].form = "bare"
            /\ Opens(text.segs[1].body) # ""
         THEN parse_json(text.segs[1].body)
         ELSE Nothing

\* step 5: the first balanced {...} or [...] of the raw text, which with a
\* brace pair around the segments is the whole text
FirstBalanced(text) ==
    LET withBrace == SelectSeq(text.segs, LAMBDA g : Opens(g.body) # "")
    IN IF text.outer = "broken" \/ withBrace = <<>>
       THEN Nothing
       ELSE IF IsPayload(parse_json(withBrace[1].body))
            THEN parse_json(withBrace[1].body)
            ELSE Nothing

\* steps 3 to 6
FromParts(text) ==
    LET fenced == FirstPayload(BodiesOf(OrderedFences(text.segs)))
        spans == FirstPayload(BodiesOf(
                     SelectSeq(text.segs, LAMBDA g : g.form = "inline")))
    IN IF IsPayload(fenced) THEN fenced
       ELSE IF IsPayload(spans) THEN spans
       ELSE FirstBalanced(text)

\* (variant of extract_json_from_text: the parts are tried before the whole
\* text)
extract_json_from_textPartsFirst(text) ==
    IF text.kind \in {"absent", "blank"} THEN Nothing
    ELSE IF IsPayload(FromParts(text)) THEN FromParts(text)
    ELSE IF IsPayload(WholeParse(text)) THEN WholeParse(text)
    ELSE Nothing

\* extract(text): steps 1 to 6, first success wins
extract_json_from_text(text) ==
    IF text.kind \in {"absent", "blank"} THEN Nothing
    ELSE IF IsPayload(WholeParse(text)) THEN WholeParse(text)
    ELSE FromParts(text)

(* save_json_safely of utils.py *)
\* the data to save: a dict json.dump can write, and one holding an object
\* it cannot (it raises TypeError after it wrote the part before it)
SaveData == {"dict", "dict with object"}

\* the text json.dump writes for the data, and the part it has written
\* when it fails on the way
Dumped(data) == IF data = "dict" THEN "{\n  \"test\": 1\n}" ELSE "{\n  \"a\": "
Partial(data) == IF data = "dict" THEN "{\n  \"te" ELSE "{\n  \"a\": "

\* where the file system makes the call fail: nowhere, in open("w") of the
\* temp file, in a write of json.dump, in replace()
Faults == {"none", "open", "dump", "replace"}

\* the contents of the target and of the temp file ("absent": no file)
FileStates ==
    {[target |-> t, tmp |-> m] : t \in {"absent", "old"},
                                 m \in {"absent", "stale"}}

\* the `except Exception` of save_json_safely: the temp file is removed if
\* it exists (removing it is taken to succeed) and the error is raised again
Cleanup(fs) == [target |-> fs.target, tmp |-> "absent", raised |-> TRUE]

\* (variant of save_json_safely: the data is written to the target itself)
save_json_safelyInPlace(fs, data, fault) ==
    IF fault = "open" THEN Cleanup(fs)
    ELSE IF fault = "dump" \/ data # "dict"
         THEN Cleanup([fs EXCEPT !.target = Partial(data)])
         ELSE [target |-> Dumped(data), tmp |-> fs.tmp, raised |-> FALSE]

\* save_json_safely(data, file_path): the data is dumped to file_path +
\* ".tmp", which then replaces file_path; on an exception the temp file is
\* removed and the exception raised again
save_json_safely(fs, data, fault) ==
    IF fault = "open" THEN Cleanup(fs)
    ELSE IF fault = "dump" \/ data # "dict"
         THEN Cleanup([fs EXCEPT !.tmp = Partial(data)])
         ELSE IF fault = "replace"
              THEN Cleanup([fs EXCEPT !.tmp = Dumped(data)])
              ELSE [target |-> Dumped(data), tmp |-> "absent",
                    raised |-> FALSE]

\* the calls explored: save_json_safely, construct_llm_command, redact_secrets_from_args and
\* classify_error of utils.py, the duration formula of core.py, the delay
\* of retry_with_backoff, and the JSON extractor
Calls ==
    {[fn |-> "construct", model |-> "a", args |-> a, model_options |-> o] :
        a \in SeqsUpTo(ArgWords, MaxArgs), o \in OptionLists}
    \cup {[fn |-> "redact", args |-> a] : a \in SeqsUpTo(ArgWords, MaxArgs)}
    \cup {[fn |-> "classify", stderr_content |-> t] :
             t \in SeqsUpTo(StderrWords, MaxWords)}
    \cup {[fn |-> "duration", start_time |-> t0, end_time |-> t0 + e] :
             t0 \in {0, 250}, e \in ElapsedMs}
    \cup {[fn |-> "delay", attempt |-> k] : k \in 0..MaxBackoffs}
    \cup {[fn |-> "extract", text |-> t] : t \in Texts}
    \cup {[fn |-> "save", fs |-> fs, data |-> d, fault |-> x] :
             fs \in FileStates, d \in SaveData, x \in Faults}

CallInit ==
    /\ Constructed(<<>>, FALSE, FALSE)
    /\ NoAttempt
    /\ input \in Calls
    /\ output = [done |-> FALSE]

\* duration_ms = int((self.end_time or time.time()) - (self.start_time or
\* 0)) * 1000 of _run_model, _create_timeout_result and
\* _create_error_result.  The times of time.time() are seconds; they are
\* given here in milliseconds, so int() of their difference in seconds is
\* the whole division by 1000.
duration_ms(start_time, end_time) ==
    ((end_time - start_time) \div 1000) * 1000

Returns(fn, value) ==
    /\ ~output.done
    /\ input.fn = fn
    /\ output' = [done |-> TRUE, value |-> value]
    /\ UNCHANGED <<mainVars, attemptVars, input>>

CallConstruct ==
    /\ input.fn = "construct"
    /\ Returns("construct",
               construct_llm_command(input.model, input.args,
                                     input.model_options))

CallRedact ==
    /\ input.fn = "redact"
    /\ Returns("redact", redact_secrets_from_args(input.args))

CallClassify ==
    /\ input.fn = "classify"
    /\ Returns("classify", classify_stderr(input.stderr_content))

CallDuration ==
    /\ input.fn = "duration"
    /\ Returns("duration", duration_ms(input.start_time, input.end_time))

CallDelay ==
    /\ input.fn = "delay"
    /\ Returns("delay", Delay(input.attempt))

CallExtract ==
    /\ input.fn = "extract"
    /\ Returns("extract", extract_json_from_text(input.text))

CallSave ==
    /\ input.fn = "save"
    /\ Returns("save", save_json_safely(input.fs, input.data, input.fault))

CallNext ==
    \/ CallSave
    \/ CallExtract
    \/ CallConstruct
    \/ CallRedact
    \/ CallClassify
    \/ CallDuration
    \/ CallDelay

SpecCalls == CallInit /\ [][CallNext]_vars

(* ------------------ one attempt, seen line by line -------------------- *)
\* process.stdout and process.stderr
Streams == {"stdout", "stderr"}

\* the n-th line the process of the current attempt writes to stream s
Line(s, n) == [of |-> s, n |-> n, attempt |-> earlier.attempts + 1]

\* the executor of the progress branch is created with
\* suppress_streaming=True, the one of run_single_model without it
suppress_streaming == WithProgress

\* _run_model of the only model of a real run, after the process was
\* created and before the raw files are opened
AttemptInit ==
    /\ \E q \in BOOLEAN, r \in 0..MaxAttemptRetries :
          ConstructedWith(<<"a">>, q, FALSE, r)
    /\ NoCall
    /\ stream \in BOOLEAN
    /\ raw_output \in BOOLEAN
    /\ runPc = "opening"
    /\ child = [alive |-> TRUE, term |-> FALSE]
    /\ emitted = [s \in Streams |-> <<>>]
    /\ pipe = [s \in Streams |-> <<>>]
    /\ eof = [s \in Streams |-> FALSE]
    /\ lines = [s \in Streams |-> <<>>]
    /\ files = [exist |-> FALSE, stdout |-> <<>>, stderr |-> <<>>]
    /\ console = <<>>
    /\ captured = [stdout |-> <<>>, stderr |-> <<>>]
    /\ earlier = [attempts |-> 0, alive |-> 0, stdout |-> <<>>, stderr |-> <<>>]

\* the process writes a line to one of its streams
Write(s) ==
    /\ child.alive
    /\ Len(emitted[s]) < MaxLines
    /\ emitted' = [emitted EXCEPT ![s] = Append(@, Line(s, Len(@) + 1))]
    /\ pipe' = [pipe EXCEPT ![s] = Append(@, Line(s, Len(emitted[s]) + 1))]
    /\ UNCHANGED <<mainVars, callVars, earlier, stream, raw_output, runPc, child, eof,
                   lines, files, console, captured>>

\* the process exits, which ends both streams
Exit ==
    /\ child.alive
    /\ child' = [child EXCEPT !.alive = FALSE]
    /\ UNCHANGED <<mainVars, callVars, earlier, stream, raw_output, runPc, emitted,
                   pipe, eof, lines, files, console, captured>>

\* (variant of ReadLine: both readers append to stdout_lines)
ReadLineOneList(s) ==
    /\ runPc = "streaming"
    /\ ~eof[s]
    /\ pipe[s] # <<>>
    /\ pipe' = [pipe EXCEPT ![s] = Tail(@)]
    /\ lines' = [lines EXCEPT !["stdout"] = Append(@, Head(pipe[s]))]
    /\ files' = IF files.exist
                THEN [files EXCEPT ![s] = Append(@, Head(pipe[s]))]
                ELSE files
    /\ console' = IF stream /\ ~quiet /\ ~suppress_streaming
                  THEN Append(console, [model |-> models[1],
                                        text |-> Head(pipe[s]),
                                        is_stderr |-> s = "stderr"])
                  ELSE console
    /\ UNCHANGED <<mainVars, callVars, earlier, stream, raw_output, runPc, child,
                   emitted, eof, captured>>

\* one round of the loop of read_stream for stream s: readline() returned a
\* line, which is appended to the list of the stream, written to its raw
\* file if there is one, and printed if streaming is on, quiet is off and
\* streaming is not suppressed
ReadLine(s) ==
    /\ runPc = "streaming"
    /\ ~eof[s]
    /\ pipe[s] # <<>>
    /\ pipe' = [pipe EXCEPT ![s] = Tail(@)]
    /\ lines' = [lines EXCEPT ![s] = Append(@, Head(pipe[s]))]
    /\ files' = IF files.exist
                THEN [files EXCEPT ![s] = Append(@, Head(pipe[s]))]
                ELSE files
    /\ console' = IF stream /\ ~quiet /\ ~suppress_streaming
                  THEN Append(console, [model |-> models[1],
                                        text |-> Head(pipe[s]),
                                        is_stderr |-> s = "stderr"])
                  ELSE console
    /\ UNCHANGED <<mainVars, callVars, earlier, stream, raw_output, runPc, child,
                   emitted, eof, captured>>

\* readline() returned b"": the stream has ended and read_stream returns
ReadEof(s) ==
    /\ runPc = "streaming"
    /\ ~eof[s]
    /\ pipe[s] = <<>>
    /\ ~child.alive
    /\ eof' = [eof EXCEPT ![s] = TRUE]
    /\ UNCHANGED <<mainVars, callVars, earlier, stream, raw_output, runPc, child,
                   emitted, pipe, lines, files, console, captured>>

\* both readers returned: _stream_output returns the joined lists, and
\* _run_model goes on after process.wait() and closes the raw files
StreamReturn ==
    /\ runPc = "streaming"
    /\ \A s \in Streams : eof[s]
    /\ captured' = [stdout |-> lines["stdout"], stderr |-> lines["stderr"]]
    /\ runPc' = "returned"
    /\ UNCHANGED <<mainVars, callVars, earlier, stream, raw_output, child, emitted,
                   pipe, eof, lines, files, console>>

\* the host is interrupted while the attempt reads the streams: asyncio.run
\* cancels the tasks, CancelledError passes the `except TimeoutError` of
\* _run_model, whose `finally` closes the raw files, and no handler of
\* core.py or app.py signals the process or removes a file.  Whether the
\* process goes on running is up to the platform.
Interrupt ==
    /\ runPc = "streaming"
    /\ runPc' = "cancelled"
    /\ \E goesOn \in BOOLEAN :
          child' = [child EXCEPT !.alive = child.alive /\ goesOn]
    /\ UNCHANGED <<mainVars, callVars, earlier, stream, raw_output, emitted, pipe,
                   eof, lines, files, console, captured>>

\* what a retry of retry_with_backoff starts with: one more attempt has
\* ended, and _run_model has created the process of the next one
NextAttempt(left_alive, wrote) ==
    /\ earlier' = [attempts |-> earlier.attempts + 1,
                   alive |-> earlier.alive + left_alive,
                   stdout |-> earlier.stdout \o wrote.stdout,
                   stderr |-> earlier.stderr \o wrote.stderr]
    /\ runPc' = "opening"
    /\ child' = [alive |-> TRUE, term |-> FALSE]
    /\ emitted' = [s \in Streams |-> <<>>]
    /\ pipe' = [s \in Streams |-> <<>>]
    /\ eof' = [s \in Streams |-> FALSE]
    /\ lines' = [s \in Streams |-> <<>>]

\* the process of the attempt exited with a nonzero code and a stderr that
\* classify_error finds retryable (so it is not empty): _run_model raises,
\* retry_with_backoff sleeps and calls _run_model again
RetryAttempt ==
    /\ runPc = "returned"
    /\ captured.stderr # <<>>
    /\ earlier.attempts < retries
    /\ NextAttempt(0, files)
    /\ UNCHANGED <<mainVars, callVars, stream, raw_output, files, console,
                   captured>>

\* the raw files of the model are opened with mode "w" if raw output is
\* requested, and _run_model goes on to read the streams
OpenFiles ==
    /\ runPc = "opening"
    /\ runPc' = "streaming"
    /\ files' = IF raw_output
                THEN [exist |-> TRUE, stdout |-> <<>>, stderr |-> <<>>]
                ELSE files
    /\ UNCHANGED <<mainVars, callVars, earlier, stream, raw_output, child,
                   emitted, pipe, eof, lines, console, captured>>

\* get_model_output_paths or open("w") raises (the raw directory cannot be
\* made, or the name of the model holds a "/" and the file would be in a
\* directory that does not exist): the exception leaves _run_model, where
\* no handler is around these lines, with the process created and not
\* waited for.  retry_with_backoff retries after any exception; after the
\* last attempt execute() returns the error result.
OpenFilesFail ==
    /\ runPc = "opening"
    /\ raw_output
    /\ IF earlier.attempts < retries
       THEN /\ NextAttempt(IF child.alive THEN 1 ELSE 0,
                           [stdout |-> <<>>, stderr |-> <<>>])
            /\ UNCHANGED <<mainVars, callVars, stream, raw_output, files,
                           console, captured>>
       ELSE /\ runPc' = "failed"
            /\ UNCHANGED <<mainVars, callVars, earlier, stream, raw_output,
                           child, emitted, pipe, eof, lines, files, console,
                           captured>>

AttemptNext ==
    \/ Exit
    \/ StreamReturn
    \/ Interrupt
    \/ RetryAttempt
    \/ OpenFiles
    \/ OpenFilesFail
    \/ \E s \in Streams : Write(s)
    \/ \E s \in Streams : ReadLine(s)
    \/ \E s \in Streams : ReadEof(s)

SpecAttempt == AttemptInit /\ [][AttemptNext]_vars

(* ------------------------------ claims -------------------------------- *)
\* the positions at which a task is inside an attempt of _run_model
InAttempt == {"spawn", "streaming", "waitexit", "grace", "killwait"}

\* the tasks that hold a token of the semaphore
Holding == {i \in Tasks : pc[i] \in InAttempt \cup {"backoff"}}

\* C1: when execute_all returns for a nonempty list, there is exactly one
\* result per spec and the i-th result is the one of the i-th spec
C1_OneResultPerSpecInOrder ==
    mainPc = "returned" =>
        /\ Len(models) > 0
        /\ DOMAIN results = 1..Len(models)
        /\ \A i \in Tasks :
              /\ results[i].task = i
              /\ results[i].model = models[i]
              /\ results[i].status \in {"ok", "error", "timeout"}

\* C1 witness: the list with more models than tokens has returned, and its
\* first two results differ
C1_Witness ==
    /\ mainPc = "returned"
    /\ models = Crowd
    /\ results[1].status = "error"
    /\ results[2].status = "ok"

\* C2: with more models than config.parallel, never more than
\* config.parallel runs hold a token at the same time
C2_AtMostParallelRunning ==
    Len(models) > parallel => Cardinality(Holding) <= parallel

\* C3: a run whose latest attempt timed out is over, with the Timeout
\* outcome: a timed-out attempt is never followed by a backoff or a spawn
C3_TimeoutNeverRetried ==
    \A i \in Tasks :
        lastEnd[i] = "timeout" =>
            pc[i] = "done" /\ taskResult[i].status = "timeout"

\* C4: with a timeout configured, wherever a run awaits its live process
\* (reading its output or waiting for its exit) the timeout can expire
C4_TimeoutBoundsCaptureAndWait ==
    \A i \in Tasks :
        (timeoutSet /\ pc[i] \in {"streaming", "waitexit"} /\ proc[i].alive)
            => ENABLED TimeoutExpire(i)

\* C5: a run whose spawn failed is over with an Error, after exactly one
\* spawn attempt and without having slept
C5_SpawnFailureNeverRetried ==
    \A i \in Tasks :
        lastEnd[i] = "spawn" =>
            /\ pc[i] = "done"
            /\ taskResult[i].status = "error"
            /\ spawnCalls[i] = 1
            /\ slept[i] = 0

\* C6: a run makes at most retries + 1 attempts (one when retries = 0), and
\* an attempt after the first runs only after a transient failure
C6_AttemptsBoundedAndOnlyAfterTransient ==
    \A i \in Tasks :
        /\ spawnCalls[i] <= retries + 1
        /\ retries = 0 => spawnCalls[i] <= 1
        /\ (attempt[i] > 0 /\ pc[i] \in InAttempt) => lastEnd[i] = "transient"

\* the k-th backoff term of the design: min(1 * 2^k, 60) seconds
C7_BackoffTerm(k) == Min(Pow2(k), 60)

RECURSIVE C7_SumOfTerms(_)
C7_SumOfTerms(k) ==
    IF k = 0 THEN 0 ELSE C7_SumOfTerms(k - 1) + C7_BackoffTerm(k - 1)

C8_ExhaustedRetriesGiveError ==
    \A i \in Tasks :
        (lastEnd[i] = "transient" /\ onlyTransient[i]
         /\ spawnCalls[i] = retries + 1 /\ pc[i] \notin InAttempt) =>
            /\ pc[i] = "done"
            /\ taskResult[i].status = "error"

\* C8 witness: three transient failures with retries = 2
C8_Witness ==
    \E i \in Tasks :
        /\ retries = 2
        /\ spawnCalls[i] = 3
        /\ lastEnd[i] = "transient"
        /\ onlyTransient[i]
        /\ pc[i] = "done"

C10_TerminateGraceKillOrder ==
    [][\A i \in Tasks :
          /\ (proc'[i].term /\ ~proc[i].term) =>
                (pc[i] = "streaming" /\ timeoutSet /\ ~proc'[i].kill)
          /\ (proc'[i].kill /\ ~proc[i].kill) =>
                (pc[i] = "grace" /\ proc[i].term /\ proc[i].alive)
          /\ (pc[i] \in InAttempt /\ pc'[i] \notin InAttempt
              /\ lastEnd'[i] = "timeout") =>
                (proc[i].term /\ ~proc[i].alive
                 /\ (proc[i].kill <=> pc[i] = "killwait"))]_vars

\* C10 witness: an attempt ended as a timeout after terminate and kill
C10_Witness ==
    \E i \in Tasks :
        /\ lastEnd[i] = "timeout"
        /\ proc[i].term
        /\ proc[i].kill
        /\ ~proc[i].alive

\* C11: the step in which one run ends with the error or timeout outcome
\* changes nothing of any sibling run (position, process, attempts,
\* recorded outcome) and does not end execute_all; and when execute_all
\* returns, every run has an outcome of its own
C11_FailureLeavesSiblingsAlone ==
    [][/\ \A i \in Tasks :
             (pc[i] # "done" /\ pc'[i] = "done"
              /\ taskResult'[i].status \in {"error", "timeout"}) =>
                /\ mainPc' = mainPc
                /\ \A j \in Tasks \ {i} :
                      /\ pc'[j] = pc[j]
                      /\ proc'[j] = proc[j]
                      /\ attempt'[j] = attempt[j]
                      /\ lastEnd'[j] = lastEnd[j]
                      /\ taskResult'[j] = taskResult[j]
       /\ mainPc' \in {"returned", "sink_failed"} =>
             \A j \in Tasks :
                 /\ results'[j].task = j
                 /\ results'[j].status \in {"ok", "error", "timeout"}]_vars

\* C11 witness: the first run has timed out while the process of the
\* second is alive and being read
C11_Witness ==
    /\ Len(models) = 2
    /\ taskResult[1].status = "timeout"
    /\ pc[2] = "streaming"
    /\ proc[2].alive

\* C12: after execute_all returned, the exit code is nonzero exactly when
\* this is not a dry run and some result is error or timeout; it is 0 when
\* every result is ok, and 0 in a dry run
C12_ExitCodeNonZeroIffFailure ==
    mainPc = "returned" =>
        /\ get_exit_code # 0 <=>
              (~dry_run /\ \E i \in Tasks :
                              results[i].status \in {"error", "timeout"})
        /\ (\A i \in Tasks : results[i].status = "ok") => get_exit_code = 0
        /\ dry_run => get_exit_code = 0

\* C12 witness: a returned run whose only failure is a timeout has exit
\* code 1
C12_Witness ==
    /\ mainPc = "returned"
    /\ Len(models) = 2
    /\ results[1].status = "ok"
    /\ results[2].status = "timeout"
    /\ get_exit_code = 1

\* C13: with an empty model list execute_all only raises: there is no
\* task that could spawn a process, no status entry, no display, no result
\* and no artifact, and every token is free
C13_EmptyListRejected ==
    Len(models) = 0 =>
        /\ mainPc \in {"init", "raised"}
        /\ Tasks = {}
        /\ DOMAIN model_status = {}
        /\ ~live.on
        /\ results = <<>>
        /\ artifacts = NoArtifacts
        /\ semaphore = SemaphoreSize

\* C13 witness: execute_all has raised for the empty list
C13_Witness ==
    /\ Len(models) = 0
    /\ mainPc = "raised"

\* C14: the free tokens and the runs between acquire and completion always
\* add up to the size of the semaphore (no token is lost or released
\* twice), a run inside an attempt or a backoff holds a token, and once
\* execute_all has finished every token is free
C14_TokenHeldFromStartToCompletion ==
    /\ semaphore + Cardinality(Holding) = SemaphoreSize
    /\ semaphore <= SemaphoreSize
    /\ \A i \in Tasks :
          (spawnCalls[i] > 0 /\ pc[i] # "done") => i \in Holding
    /\ mainPc \in {"returned", "sink_failed"} =>
          (semaphore = SemaphoreSize /\ Holding = {})

\* C14 witness: execute_all has returned after a run that exhausted its
\* retries
C14_Witness ==
    /\ mainPc = "returned"
    /\ semaphore = SemaphoreSize
    /\ retries = 2
    /\ spawnCalls[1] = 3
    /\ results[1].status = "error"

\* the phases of a status entry after which its run is over
TerminalStatus == {"completed", "timeout", "error"}

\* C15: while the table is shown, the entry of a run that has not yet
\* acquired a token is not "running"
C15_WaitingNeverShownRunning ==
    \A i \in Tasks :
        (live.on /\ pc[i] \in {"created", "waiting"}) =>
            live.table[models[i]] # "running"

\* C16: a status entry that has reached completed, timeout or error is
\* never given another phase
C16_TerminalStatusNeverRewritten ==
    [][\A n \in DOMAIN model_status :
          model_status[n] \in TerminalStatus =>
              model_status'[n] = model_status[n]]_vars

\* C17: after the initialisation, model_status is written only in the
\* progress branch, in the step in which exactly one run completes: the
\* step finds update_lock free and leaves it free, writes only the entry
\* of that run, and the table shown afterwards is the written map
C17_StatusUpdateAndRefreshExclusive ==
    [][mainPc = "gather" =>
          /\ model_status' # model_status => WithProgress
          /\ (WithProgress /\ pc' # pc
              /\ \E i \in Tasks : pc[i] # "done" /\ pc'[i] = "done") =>
                /\ update_lock = "free"
                /\ update_lock' = "free"
                /\ \E i \in Tasks :
                      /\ pc[i] # "done"
                      /\ pc'[i] = "done"
                      /\ \A j \in Tasks \ {i} : pc'[j] = pc[j]
                      /\ model_status' =
                            [model_status EXCEPT
                                ![models[i]] = StatusOf(taskResult'[i])]
                /\ live'.table = model_status'
          /\ (model_status' = model_status /\ mainPc' = "gather") =>
                live' = live]_vars

\* C17 witness: the table shows one run completed and the other running
C17_Witness ==
    /\ live.on
    /\ Len(models) = 2
    /\ models[1] # models[2]
    /\ pc[1] = "streaming"
    /\ pc[2] = "done"
    /\ live.table[models[1]] = "running"
    /\ live.table[models[2]] = "completed"

\* C18: in a dry run app.run has not run `llm --version`, no run spawns a
\* process, starts an attempt, waits for a timeout or sleeps for a
\* backoff, no artifact is written, and a run goes from waiting to done in
\* one step, with an ok result of duration 0 and exit code 0 whose text is
\* the dry-run marker followed by the redacted command
C18_DryRunSpawnsAndWritesNothing ==
    dry_run =>
        /\ ~llmChecked
        /\ artifacts = NoArtifacts
        /\ \A i \in Tasks :
              /\ spawnCalls[i] = 0
              /\ proc[i] = NoProc
              /\ attempt[i] = 0
              /\ slept[i] = 0
              /\ lastEnd[i] = "none"
              /\ pc[i] \in {"created", "waiting", "done"}
              /\ pc[i] = "done" =>
                    /\ taskResult[i].status = "ok"
                    /\ taskResult[i].duration_ms = 0
                    /\ taskResult[i].exit_code = 0
                    /\ taskResult[i].text =
                          <<DRY_RUN_PREFIX, "llm", "-m", models[i],
                            "--api-key", "***REDACTED***", "hello">>

\* C18 witness: a dry run of two models has returned
C18_Witness ==
    /\ dry_run
    /\ mainPc = "returned"
    /\ Len(models) = 2
    /\ results[2].text[4] = "b"

\* C19: whenever something has been written to the output directory, this
\* is not a dry run and every run is done with its outcome recorded
C19_ArtifactsOnlyAfterAllRunsDone ==
    artifacts # NoArtifacts =>
        /\ ~dry_run
        /\ mainPc \in {"returned", "sink_failed"}
        /\ \A i \in Tasks :
              /\ pc[i] = "done"
              /\ taskResult[i].status \in {"ok", "error", "timeout"}

\* C19 witness: the manifest, results.jsonl and both result files of a
\* two-model run are written
C19_Witness ==
    /\ mainPc = "returned"
    /\ models = <<"a", "b">>
    /\ artifacts.manifest
    /\ artifacts.jsonl
    /\ DOMAIN artifacts.files = {"a", "b"}

\* C20: when a write of _save_artifacts fails, execute_all ends by raising
\* (it returns only with every artifact written), and self.results holds
\* for every run the result its task returned
C20_SaveFailureRaisedResultsKept ==
    /\ (mainPc = "returned" /\ ~dry_run) =>
          artifacts = Written(results, NumWrites)
    /\ mainPc = "sink_failed" =>
          /\ ~dry_run
          /\ artifacts # Written(results, NumWrites)
          /\ DOMAIN results = Tasks
          /\ \A i \in Tasks : results[i] = taskResult[i]

\* C20 witness: the write of results.jsonl failed after a run that ended
\* with an error and one that ended ok
C20_Witness ==
    /\ mainPc = "sink_failed"
    /\ artifacts.manifest
    /\ ~artifacts.jsonl
    /\ Len(models) = 2
    /\ results[1].status = "error"
    /\ results[2].status = "ok"

\* C21: once the host was interrupted while an attempt read the streams,
\* the process of the attempt has been sent a terminate or is gone, and
\* the raw files of the attempt hold nothing
C21_InterruptTerminatesAndLeavesNoRawOutput ==
    runPc = "cancelled" =>
        /\ child.term \/ ~child.alive
        /\ files.exist => (files.stdout = <<>> /\ files.stderr = <<>>)

C23_Occurs(value, arg) ==
    \/ value = arg
    \/ <<value, arg>> \in {<<"s3cret", "api_key=s3cret">>,
                           <<"hello", "n=hello">>}

\* C23: where a credential flag is followed by a value (an argument that
\* is not itself a credential flag), the redacted form has the marker in
\* the place of the value and the value occurs in none of its arguments
C23_CredentialValueRedacted ==
    (output.done /\ input.fn = "redact") =>
        \A k \in 1..(Len(input.args) - 1) :
            (lower(input.args[k]) \in SecretFlags
             /\ lower(input.args[k + 1]) \notin SecretFlags) =>
                /\ output.value[k + 1] = "***REDACTED***"
                /\ \A j \in 1..Len(output.value) :
                      ~C23_Occurs(input.args[k + 1], output.value[j])

\* C24: a stderr that holds a permanent pattern in any case is permanent
\* (not retryable) whatever else it holds, one that holds only transient
\* patterns is transient, and one that holds no pattern is permanent
C24_PermanentPatternsTakePrecedence ==
    (output.done /\ input.fn = "classify") =>
        LET low == [k \in 1..Len(input.stderr_content) |->
                       lower_word(input.stderr_content[k])]
            permanent == \E p \in PERMANENT_ERROR_PATTERNS : Contains(low, p)
            transient == \E p \in TRANSIENT_ERROR_PATTERNS : Contains(low, p)
        IN /\ permanent => output.value = FALSE
           /\ (~permanent /\ transient) => output.value = TRUE
           /\ (~permanent /\ ~transient) => output.value = FALSE
           /\ input.stderr_content = <<"Connection", "TIMEOUT">> =>
                 output.value = TRUE
           /\ input.stderr_content = <<"Invalid", "API", "key">> =>
                 output.value = FALSE
           /\ input.stderr_content = <<"gremlin">> => output.value = FALSE

\* C24 witness: a stderr with a transient and a permanent pattern, in
\* upper case, was classified as permanent
C24_Witness ==
    /\ output.done
    /\ input.fn = "classify"
    /\ input.stderr_content = <<"TIMEOUT", "API", "key">>
    /\ output.value = FALSE

\* C25: every result has one of the three statuses, its status is ok
\* exactly when its exit code is 0, and an error or timeout result has a
\* nonzero exit code
C25_StatusOkIffExitCodeZero ==
    \A i \in Tasks :
        taskResult[i] # NoResult =>
            /\ taskResult[i].status \in {"ok", "error", "timeout"}
            /\ taskResult[i].status = "ok" <=> taskResult[i].exit_code = 0
            /\ taskResult[i].status \in {"error", "timeout"} =>
                  taskResult[i].exit_code # 0

\* C25 witness: a timeout result next to the error result of a process
\* that exited with code 1
C25_Witness ==
    /\ Len(models) = 2
    /\ taskResult[1].status = "timeout"
    /\ taskResult[2].status = "error"
    /\ taskResult[2].exit_code = 1

\* C26: the duration of a result is the time in milliseconds from
\* start_time to the end of the run
C26_DurationIsElapsedMilliseconds ==
    (output.done /\ input.fn = "duration") =>
        output.value = input.end_time - input.start_time

\* C27: the delay after the failed attempt k (the loop variable of
\* retry_with_backoff, from 0) is min(1 * 2^k, 60) seconds: it is at most
\* 60 and not larger than the delay after attempt k + 1
C27_DelayIsCappedPowerOfTwo ==
    (output.done /\ input.fn = "delay") =>
        /\ output.value = Min(1 * Pow2(input.attempt), 60)
        /\ output.value <= 60
        /\ output.value <= Delay(input.attempt + 1)

\* C27 witness: the delay after attempt 6 is the cap
C27_Witness ==
    /\ output.done
    /\ input.fn = "delay"
    /\ input.attempt = 6
    /\ output.value = 60

C29_LinesCapturedInOrderPerStream ==
    /\ \A s \in Streams : lines[s] \o pipe[s] = emitted[s]
    /\ runPc = "returned" =>
          /\ captured.stdout = emitted["stdout"]
          /\ captured.stderr = emitted["stderr"]

\* C29 witness: both streams were captured in full after the readers took
\* turns
C29_Witness ==
    /\ runPc = "returned"
    /\ Len(captured.stdout) = 2
    /\ Len(captured.stderr) = 2

\* C30: with streaming on and quiet off, every line read in a real run is
\* on the console, with the name of the model
C30_LinesForwardedToConsole ==
    (stream /\ ~quiet /\ ~dry_run) =>
        \A s \in Streams : \A k \in 1..Len(lines[s]) :
            \E c \in 1..Len(console) :
                /\ console[c].model = models[1]
                /\ console[c].text = lines[s][k]

\* C31: with raw output requested, the raw file of each stream begins with
\* every line the earlier attempts of the run wrote to it: a retry removes
\* or overwrites none of them
C31_RawFilesKeepEarlierAttempts ==
    files.exist =>
        \A s \in Streams :
            /\ Len(files[s]) >= Len(earlier[s])
            /\ SubSeq(files[s], 1, Len(earlier[s])) = earlier[s]

\* C32: when the text as a whole is not JSON and some fenced block parses
\* to an object or array, the result is the body of the first such block
\* in the order: blocks tagged json in any case, then untagged blocks, then
\* the other blocks, each group in source order
C32_FencedBlocksTriedByTagPriority ==
    (output.done /\ input.fn = "extract") =>
        LET segs == input.text.segs
            rank(k) == IF segs[k].tag \in {"json", "JSON"} THEN 1
                       ELSE IF segs[k].tag = "" THEN 2 ELSE 3
            good(k) == /\ segs[k].form = "fence"
                       /\ segs[k].body \in {"{\"a\":1}", "[1]"}
            before(k, j) == \/ rank(k) < rank(j)
                            \/ (rank(k) = rank(j) /\ k <= j)
        IN (input.text.outer # "object"
            /\ \E k \in 1..Len(segs) : good(k)) =>
               \E k \in 1..Len(segs) :
                   /\ good(k)
                   /\ \A j \in 1..Len(segs) : good(j) => before(k, j)
                   /\ output.value.shape \in {"object", "array"}
                   /\ output.value.body = segs[k].body

\* C32 witness: a block tagged JSON that holds an array won over an
\* earlier block tagged yaml that holds an object
C32_Witness ==
    /\ output.done
    /\ input.fn = "extract"
    /\ input.text.outer = "none"
    /\ input.text.segs = <<[form |-> "fence", tag |-> "yaml",
                            body |-> "{\"a\":1}"],
                           [form |-> "fence", tag |-> "JSON", body |-> "[1]"]>>
    /\ output.value.shape = "array"

\* C33: the extractor returns an object, an array or nothing, never a
\* scalar; a text that is absent, blank or holds no object or array gives
\* nothing; and every call returns
C33_OnlyObjectOrArrayOrNothing ==
    /\ (output.done /\ input.fn = "extract") =>
          /\ output.value.shape \in {"nothing", "object", "array"}
          /\ (\/ input.text.kind \in {"absent", "blank"}
              \/ /\ input.text.outer # "object"
                 /\ \A k \in 1..Len(input.text.segs) :
                       input.text.segs[k].body \notin {"{\"a\":1}", "[1]"})
             => output.value.shape = "nothing"
    /\ (~output.done /\ input.fn = "extract") => ENABLED CallExtract

\* C33 witness: a block tagged json that holds a scalar gave nothing
C33_Witness ==
    /\ output.done
    /\ input.fn = "extract"
    /\ input.text.outer = "none"
    /\ input.text.segs = <<[form |-> "fence", tag |-> "json", body |-> "42"]>>
    /\ output.value.shape = "nothing"

\* C34 as stated: for a text that is valid JSON as a whole (an object, an
\* array or a scalar), the result is the parse of the whole text
C34_ValidJsonExtractsToItsParse ==
    (output.done /\ input.fn = "extract" /\ input.text.kind = "text") =>
        LET text == input.text
        IN /\ text.outer = "object" => output.value = parse_whole
           /\ (/\ text.outer = "none"
               /\ Len(text.segs) = 1
               /\ text.segs[1].form = "bare"
               /\ text.segs[1].body \in {"{\"a\":1}", "[1]", "42"})
              => /\ output.value.shape \in {"object", "array", "scalar"}
                 /\ output.value.body = text.segs[1].body

\* C34 amended: for a text that is a valid JSON object or array as a
\* whole, the result is the parse of the whole text, whatever fenced
\* blocks, inline spans or embedded braces it holds
C34_ObjectOrArrayTextExtractsToItsParse ==
    (output.done /\ input.fn = "extract" /\ input.text.kind = "text") =>
        LET text == input.text
        IN /\ text.outer = "object" => output.value = parse_whole
           /\ (/\ text.outer = "none"
               /\ Len(text.segs) = 1
               /\ text.segs[1].form = "bare"
               /\ text.segs[1].body \in {"{\"a\":1}", "[1]"})
              => /\ output.value.shape \in {"object", "array"}
                 /\ output.value.body = text.segs[1].body

\* C34 witness: the text is one JSON object whose string holds a block
\* tagged json with an array, and the result is the object
C34_Witness ==
    /\ output.done
    /\ input.fn = "extract"
    /\ input.text.outer = "object"
    /\ input.text.segs = <<[form |-> "fence", tag |-> "json", body |-> "[1]"]>>
    /\ output.value = parse_whole

\* C35: a call of save_json_safely that fails raises the error, leaves the
\* target as it was (absent or with its old content) and leaves no temp
\* file; one that succeeds leaves the complete new content in the target
C35_SaveIsAtomicOnFailure ==
    (output.done /\ input.fn = "save") =>
        LET fails == input.fault # "none" \/ input.data # "dict"
        IN /\ output.value.raised = fails
           /\ fails => /\ output.value.target = input.fs.target
                       /\ output.value.tmp = "absent"
           /\ ~fails => output.value.target = "{\n  \"test\": 1\n}"

\* C35 witness: json.dump failed on the data after the temp file was
\* opened, the old target is still there and the temp file is gone
C35_Witness ==
    /\ output.done
    /\ input.fn = "save"
    /\ input.data = "dict with object"
    /\ input.fault = "none"
    /\ input.fs = [target |-> "old", tmp |-> "absent"]
    /\ output.value = [target |-> "old", tmp |-> "absent", raised |-> TRUE]

\* C36: an error result of a run whose latest attempt ended with a nonzero
\* exit code, retryable or not, carries the exit code of the process (not
\* the -1 of a result made without one)
C36_ErrorResultCarriesProcessExitCode ==
    \A i \in Tasks :
        (taskResult[i].status = "error"
         /\ lastEnd[i] \in {"transient", "permanent"}) =>
            taskResult[i].exit_code \in ExitCodes \ {0}

\* C37: when an attempt has ended or the run has its error result, the
\* process of the attempt is not alive, and no process of an earlier
\* attempt was alive when the next attempt created its own
C37_NoProcessOutlivesItsAttempt ==
    /\ runPc \in {"returned", "failed"} => ~child.alive
    /\ earlier.alive = 0

\* C38: when execute_all has returned from the branch with the progress
\* table, the entry shown for each spec is the terminal phase of that
\* spec's own result
C38_FinalStatusMatchesOwnResult ==
    (mainPc = "returned" /\ WithProgress) =>
        \A i \in Tasks :
            /\ model_status[models[i]] = StatusOf(results[i])
            /\ live.table[models[i]] = StatusOf(results[i])

\* C39: when execute_all has returned from a real run, every result of
\* the list is held by the result file named after its model
C39_EveryResultHasItsOwnFile ==
    (mainPc = "returned" /\ ~dry_run) =>
        /\ artifacts.jsonl
        /\ \A i \in Tasks :
              /\ models[i] \in DOMAIN artifacts.files
              /\ artifacts.files[models[i]] = results[i]

\* C40: under a fair event loop and with processes that each exit at some
\* time, every run of a list of models gets its token and ends with a
\* result, the status lock is free again and again, and execute_all ends
\* (it returns, or raises what a write of the artifacts raised)
C40_EveryRunEndsAndExecuteAllReturns ==
    /\ <>(/\ mainPc \in {"returned", "sink_failed", "raised"}
          /\ mainPc # "raised" =>
                \A i \in Tasks : /\ pc[i] = "done"
                                 /\ taskResult[i].status # "none")
    /\ []<>(update_lock = "free")

\* C40 witness: all five runs of a list of five models are done, of which
\* only four could hold a token at a time
C40_Witness ==
    /\ models = Crowd
    /\ mainPc = "returned"
    /\ \A i \in Tasks : pc[i] = "done"
====
